---- MODULE Spec2Model ----
(***************************************************************************)
(* Model of keeperbot/AddressBook/addressbook.py: the AddressBook class,   *)
(* a UserDict from contact name to Record.                                 *)
(*                                                                         *)
(* Python objects have identity, so Records live in a heap (object id to   *)
(* Record) and the dict holds object ids.  The dict (self.data) is a       *)
(* sequence of [key, id] entries: Python dicts iterate in insertion order, *)
(* and several operations depend on that order.                            *)
(*                                                                         *)
(* A Record the directory no longer references is dropped from the heap.   *)
(* Nothing is lost by that: adding such an object again cannot be told     *)
(* from adding a new Record with the same fields, which the caller can do. *)
(***************************************************************************)
EXTENDS Integers, Sequences, FiniteSets, TLC

VARIABLES
    data,    \* self.data: the ordered dict, a sequence of [key, id]
    heap,    \* the Record objects the directory references, by object id
    call,    \* the call the caller made last, with its arguments
    result,  \* what that call returned or raised
    pre,     \* self.data and the heap as they were when that call began
    prior    \* the call before that one, when it was a delete_note_by_title

vars == <<data, heap, call, result, pre, prior>>

----------------------------------------------------------------------------
(* Bounds and input sets *)

MaxObjs == 3        \* Record objects alive at a time
MaxDays == 2        \* largest n_days the caller asks for

\* Contact names in Python's string order ("" < "a" < "b").
NameOrder == <<"", "a", "b">>
Names == {NameOrder[i] : i \in 1..Len(NameOrder)}
Rank(n) == CHOOSE i \in 1..Len(NameOrder) : NameOrder[i] = n

Titles == {"t1", "t2"}

\* A calendar date, and the absent birthday (record.birthday is None).
Date(y, m, d) == [y |-> y, m |-> m, d |-> d]
NoDate == Date(0, 0, 0)

Return(v) == [kind |-> "return", value |-> v]
Raise(e) == [kind |-> "raise", value |-> e]

----------------------------------------------------------------------------
(* The ordered dict self.data *)

Keys(d) == {d[i].key : i \in 1..Len(d)}
Has(d, k) == k \in Keys(d)
IndexOf(d, k) == CHOOSE i \in 1..Len(d) : d[i].key = k
Get(d, k) == d[IndexOf(d, k)].id
Values(d) == [i \in 1..Len(d) |-> d[i].id]

\* d[k] = v: an existing key keeps its position, a new key goes last.
DictSet(d, k, v) ==
    IF Has(d, k)
    THEN [d EXCEPT ![IndexOf(d, k)] = [key |-> k, id |-> v]]
    ELSE Append(d, [key |-> k, id |-> v])

\* del d[k], for a key that is present.
DictDel(d, k) ==
    LET i == IndexOf(d, k)
    IN SubSeq(d, 1, i - 1) \o SubSeq(d, i + 1, Len(d))

----------------------------------------------------------------------------
(* AddressBook operations: each maps (self.data, heap, arguments) to the   *)
(* state after the call and what the call returned or raised.              *)

Out(d, h, r) == [data |-> d, heap |-> h, result |-> r]

\* add_record without the test of the name: any Record is stored.
add_record_any_name(d, h, v) ==
    IF ~v.isRecord
    THEN Out(d, h, Raise("ValueError"))
    ELSE Out(DictSet(d, h[v.id].name, v.id), h, Return("None"))

\* add_record with self.data.setdefault: a name already present keeps the
\* record it has.
add_record_setdefault(d, h, v) ==
    IF ~v.isRecord \/ h[v.id].name = ""
    THEN Out(d, h, Raise("ValueError"))
    ELSE IF Has(d, h[v.id].name)
         THEN Out(d, h, Return("None"))
         ELSE Out(DictSet(d, h[v.id].name, v.id), h, Return("None"))

\* add_record(record): v is [isRecord, id]; id names the object in h.
add_record(d, h, v) ==
    IF ~v.isRecord \/ h[v.id].name = ""
    THEN Out(d, h, Raise("ValueError"))
    ELSE Out(DictSet(d, h[v.id].name, v.id), h, Return("None"))

\* find_contact(name): the object id, 0 for None.
find_contact(d, name) == IF Has(d, name) THEN Get(d, name) ELSE 0

\* delete with self.data.popitem(): the entry added last goes, whatever
\* its name.
delete_popitem(d, h, name) ==
    IF Has(d, name)
    THEN Out(SubSeq(d, 1, Len(d) - 1), h, Return("Contact deleted."))
    ELSE Out(d, h, Raise("ValueError"))

\* delete(name)
delete(d, h, name) ==
    IF Has(d, name)
    THEN Out(DictDel(d, name), h, Return("Contact deleted."))
    ELSE Out(d, h, Raise("ValueError"))

\* Record.edit_name(new_name): sets the name field and returns a
\* confirmation, or fails (ok = FALSE) and leaves the record as it was.
edit_name(rec, new_name, ok) ==
    IF ok
    THEN [rec |-> [rec EXCEPT !.name = new_name], result |-> Return("Name updated.")]
    ELSE [rec |-> rec, result |-> Raise("ValueError")]

\* update_name that first clears the target key (self.data.pop(new_name,
\* None)) and only then pops name.
update_name_clear_target(d, h, name, new_name, ok) ==
    LET d0 == IF Has(d, new_name) THEN DictDel(d, new_name) ELSE d
    IN IF ~Has(d, name)
       THEN Out(d0, h, Raise("KeyError"))
       ELSE LET id == Get(d, name)
                e  == edit_name(h[id], new_name, ok)
            IN Out(DictSet(DictDel(d, name), new_name, id), [h EXCEPT ![id] = e.rec], e.result)

\* update_name that reads self.data[name] instead of popping it: the old
\* key stays.
update_name_keep_old(d, h, name, new_name, ok) ==
    IF ~Has(d, name)
    THEN Out(d, h, Raise("KeyError"))
    ELSE LET id == Get(d, name)
             e  == edit_name(h[id], new_name, ok)
         IN Out(DictSet(d, new_name, id), [h EXCEPT ![id] = e.rec], e.result)

\* update_name(name, new_name): self.data.pop(name) raises KeyError before
\* anything is assigned; otherwise the entry is re-keyed and only then
\* edit_name runs.
update_name(d, h, name, new_name, ok) ==
    IF ~Has(d, name)
    THEN Out(d, h, Raise("KeyError"))
    ELSE LET id == Get(d, name)
             d1 == DictSet(DictDel(d, name), new_name, id)
             e  == edit_name(h[id], new_name, ok)
         IN Out(d1, [h EXCEPT ![id] = e.rec], e.result)

\* sorted(values, key=name): Python's sort is stable, so a record goes
\* after every record already placed whose name is not greater.
RECURSIVE InsertByName(_, _, _)
InsertByName(s, id, h) ==
    IF s = <<>> THEN <<id>>
    ELSE IF Rank(h[Head(s)].name) <= Rank(h[id].name)
         THEN <<Head(s)>> \o InsertByName(Tail(s), id, h)
         ELSE <<id>> \o s

RECURSIVE SortedByName(_, _)
SortedByName(ids, h) ==
    IF ids = <<>> THEN <<>>
    ELSE InsertByName(SortedByName(SubSeq(ids, 1, Len(ids) - 1), h), ids[Len(ids)], h)

\* {record.name.value: record for record in ids}: the dict comprehension.
RECURSIVE DictFromRecords(_, _, _)
DictFromRecords(acc, ids, h) ==
    IF ids = <<>> THEN acc
    ELSE DictFromRecords(DictSet(acc, h[Head(ids)].name, Head(ids)), Tail(ids), h)

\* sort_records()
sort_records(d, h) ==
    Out(DictFromRecords(<<>>, SortedByName(Values(d), h), h), h, Return("None"))

\* The positions in a note list whose note has the title.
TitleAt(notes, title) == {j \in 1..Len(notes) : notes[j] = title}
Min(S) == CHOOSE x \in S : \A y \in S : x <= y
RemoveAt(s, j) == SubSeq(s, 1, j - 1) \o SubSeq(s, j + 1, Len(s))

\* delete_note_by_title that drops every note with the title from the
\* first record that has one.
delete_note_by_title_all(d, h, title) ==
    LET hits == {i \in 1..Len(d) : \E j \in 1..Len(h[d[i].id].notes) : h[d[i].id].notes[j] = title}
    IN IF hits = {} THEN Out(d, h, Return("None"))
       ELSE LET id == d[CHOOSE i \in hits : \A k \in hits : i <= k].id
            IN Out(d, [h EXCEPT ![id].notes = SelectSeq(@, LAMBDA t : t # title)],
                   Return("None"))

\* delete_note_by_title(note_title): the first record in iteration order
\* that has a note with the title loses its first such note; then return.
delete_note_by_title(d, h, title) ==
    LET hits == {i \in 1..Len(d) : TitleAt(h[d[i].id].notes, title) # {}}
    IN IF hits = {} THEN Out(d, h, Return("None"))
       ELSE LET id == d[Min(hits)].id
                j  == Min(TitleAt(h[id].notes, title))
            IN Out(d, [h EXCEPT ![id].notes = RemoveAt(@, j)], Return("None"))

\* get_owner(): the first record in iteration order with owner set, 0 for None.
get_owner(d, h) ==
    LET owners == {i \in 1..Len(d) : h[d[i].id].owner}
    IN IF owners = {} THEN 0 ELSE d[Min(owners)].id

----------------------------------------------------------------------------
(* datetime.date: the proleptic Gregorian calendar *)

IsLeap(y) == (y % 4 = 0 /\ y % 100 # 0) \/ y % 400 = 0

DaysInMonth(y, m) ==
    IF m = 2 THEN (IF IsLeap(y) THEN 29 ELSE 28)
    ELSE IF m \in {4, 6, 9, 11} THEN 30 ELSE 31

ValidDate(dt) ==
    dt.y >= 1 /\ dt.m \in 1..12 /\ dt.d \in 1..DaysInMonth(dt.y, dt.m)

RECURSIVE DaysBeforeMonth(_, _)
DaysBeforeMonth(y, m) ==
    IF m = 1 THEN 0 ELSE DaysBeforeMonth(y, m - 1) + DaysInMonth(y, m - 1)

DaysBeforeYear(y) ==
    LET p == y - 1 IN p * 365 + (p \div 4) - (p \div 100) + (p \div 400)

\* date.toordinal(); date1 - date2 and date1 < date2 go by it.
Ordinal(dt) == DaysBeforeYear(dt.y) + DaysBeforeMonth(dt.y, dt.m) + dt.d

\* date.replace(year=y): raises ValueError when the month and day do not
\* exist in year y (29 February in a common year).
replace_year(dt, y) ==
    LET r == Date(y, dt.m, dt.d)
    IN IF ValidDate(r) THEN [ok |-> TRUE, date |-> r] ELSE [ok |-> FALSE, date |-> dt]

\* The body of the loop of get_upcoming_birthdays for one birthday:
\* whether it raised, and otherwise delta_days.
birthday_delta(birthday, today) ==
    LET this == replace_year(birthday, today.y)
    IN IF ~this.ok THEN [ok |-> FALSE, delta |-> 0]
       ELSE IF Ordinal(this.date) < Ordinal(today)
            THEN LET next == replace_year(this.date, today.y + 1)
                 IN IF ~next.ok THEN [ok |-> FALSE, delta |-> 0]
                    ELSE [ok |-> TRUE, delta |-> Ordinal(next.date) - Ordinal(today)]
            ELSE [ok |-> TRUE, delta |-> Ordinal(this.date) - Ordinal(today)]

\* The loop over self.data.values(), from entry i on, acc the list so far.
RECURSIVE upcoming_from(_, _, _, _, _, _)
upcoming_from(d, h, today, n_days, i, acc) ==
    IF i > Len(d) THEN Return(acc)
    ELSE LET rec == h[d[i].id]
         IN IF rec.birthday = NoDate
            THEN upcoming_from(d, h, today, n_days, i + 1, acc)
            ELSE LET b == birthday_delta(rec.birthday, today)
                 IN IF ~b.ok THEN Raise("ValueError")
                    ELSE IF 0 <= b.delta /\ b.delta <= n_days
                         THEN upcoming_from(d, h, today, n_days, i + 1, Append(acc, d[i].id))
                         ELSE upcoming_from(d, h, today, n_days, i + 1, acc)

\* get_upcoming_birthdays(n_days), with datetime.today().date() = today.
get_upcoming_birthdays(d, h, today, n_days) ==
    Out(d, h, upcoming_from(d, h, today, n_days, 1, <<>>))

----------------------------------------------------------------------------
(* The caller: one action per call on the address book *)

Rec(n, o, b, ns) == [name |-> n, owner |-> o, birthday |-> b, notes |-> ns]

\* The Record values the caller constructs, per scenario.
DirRecords == {Rec(n, FALSE, NoDate, <<>>) : n \in Names}
OwnerRecords == {Rec(n, o, NoDate, <<>>) : n \in Names, o \in BOOLEAN}

MaxNotes == 2
NoteLists == UNION {[1..k -> Titles] : k \in 0..MaxNotes}
NoteRecords == {Rec(n, FALSE, NoDate, ns) : n \in {"a", "b"}, ns \in NoteLists}

Birthdays == {Date(1990, 2, 27), Date(1991, 3, 1), Date(2000, 2, 29), Date(1985, 1, 2)}
Todays == {Date(2024, 2, 28), Date(2024, 12, 31), Date(2025, 2, 27)}
BirthdayRecords == {Rec(n, FALSE, b, <<>>) : n \in {"a", "b"}, b \in Birthdays \cup {NoDate}}

\* The content of a heap slot that holds no object, and the free slots.
Blank == Rec("", FALSE, NoDate, <<>>)
Free(d) == (1..MaxObjs) \ {d[i].id : i \in 1..Len(d)}
EmptyHeap == [id \in 1..MaxObjs |-> Blank]

Init ==
    /\ data = <<>>
    /\ heap = EmptyHeap
    /\ call = [op |-> "init"]
    /\ result = Return("None")
    /\ pre = [data |-> <<>>, heap |-> EmptyHeap]
    /\ prior = [op |-> "other"]

\* The state after a call, with the record of the call.  The slot of an
\* object that the directory does not reference after the call is freed.
Apply(out, c) ==
    /\ data' = out.data
    /\ heap' = [id \in 1..MaxObjs |-> IF id \in Free(out.data) THEN Blank ELSE out.heap[id]]
    /\ result' = out.result
    /\ call' = c
    /\ pre' = [data |-> data, heap |-> heap]
    /\ prior' = IF call.op = "delete_note_by_title"
                THEN [op |-> call.op, title |-> call.title, removed |-> heap # pre.heap]
                ELSE [op |-> "other"]

\* add_record on a Record the caller has just constructed, in a free slot.
AddNew(r) ==
    /\ Free(data) # {}
    /\ LET id == Min(Free(data))
       IN Apply(add_record(data, [heap EXCEPT ![id] = r], [isRecord |-> TRUE, id |-> id]),
                [op |-> "add_record", isRecord |-> TRUE, id |-> id, rec |-> r])

\* add_record on a Record object that is in the directory (one the caller
\* got from find_contact, say).
AddAgain(id) ==
    /\ id \notin Free(data)
    /\ Apply(add_record(data, heap, [isRecord |-> TRUE, id |-> id]),
             [op |-> "add_record", isRecord |-> TRUE, id |-> id, rec |-> heap[id]])

\* add_record on a value that is not a Record (None, a string, ...).
AddNonRecord ==
    Apply(add_record(data, heap, [isRecord |-> FALSE, id |-> 0]),
          [op |-> "add_record", isRecord |-> FALSE, id |-> 0,
           rec |-> Blank])

Delete(name) ==
    Apply(delete(data, heap, name), [op |-> "delete", name |-> name])

UpdateName(name, new_name, ok) ==
    Apply(update_name(data, heap, name, new_name, ok),
          [op |-> "update_name", name |-> name, new_name |-> new_name, ok |-> ok])

SortRecords ==
    Apply(sort_records(data, heap), [op |-> "sort_records"])

DeleteNoteByTitle(title) ==
    Apply(delete_note_by_title(data, heap, title),
          [op |-> "delete_note_by_title", title |-> title])

GetUpcomingBirthdays(today, n_days) ==
    Apply(get_upcoming_birthdays(data, heap, today, n_days),
          [op |-> "get_upcoming_birthdays", today |-> today, n_days |-> n_days])

\* The directory: add, delete, rename, sort.
Next ==
    \/ \E r \in DirRecords : AddNew(r)
    \/ \E id \in 1..MaxObjs : AddAgain(id)
    \/ AddNonRecord
    \/ \E name \in Names : Delete(name)
    \/ \E name \in Names, new_name \in Names, ok \in BOOLEAN : UpdateName(name, new_name, ok)
    \/ SortRecords

Spec == Init /\ [][Next]_vars

\* Records of which any may be flagged as the owner.
NextOwner ==
    \/ \E r \in OwnerRecords : AddNew(r)
    \/ \E name \in Names : Delete(name)
    \/ \E name \in Names, new_name \in Names, ok \in BOOLEAN : UpdateName(name, new_name, ok)
    \/ SortRecords

SpecOwner == Init /\ [][NextOwner]_vars

\* Records that carry notes.
NextNotes ==
    \/ \E r \in NoteRecords : AddNew(r)
    \/ \E id \in 1..MaxObjs : AddAgain(id)
    \/ \E name \in Names : Delete(name)
    \/ \E title \in Titles : DeleteNoteByTitle(title)
    \/ SortRecords

SpecNotes == Init /\ [][NextNotes]_vars

\* Records that carry birthdays.
NextBirthdays ==
    \/ \E r \in BirthdayRecords : AddNew(r)
    \/ \E today \in Todays, n_days \in 0..MaxDays : GetUpcomingBirthdays(today, n_days)

SpecBirthdays == Init /\ [][NextBirthdays]_vars

----------------------------------------------------------------------------
(* Properties *)

ToSet(s) == {s[i] : i \in 1..Len(s)}
Ids(d) == ToSet(Values(d))

\* C1: every key of the mapping equals the name of the record stored
\* under it, in every reachable state.
KeyEqualsName ==
    \A i \in 1..Len(data) : data[i].key = heap[data[i].id].name

\* C2: update_name on a present name is atomic: when edit_name fails the
\* mapping and the records are as before the call; when it succeeds the
\* record is keyed under new_name and its name field is new_name.
RenameAtomic ==
    (call.op = "update_name" /\ Has(pre.data, call.name)) =>
        IF result.kind = "raise"
        THEN data = pre.data /\ heap = pre.heap
        ELSE /\ Has(data, call.new_name)
             /\ Get(data, call.new_name) = Get(pre.data, call.name)
             /\ heap[Get(data, call.new_name)].name = call.new_name

\* C3: update_name on a name that is not a key fails (KeyError, the
\* NotFound failure) and leaves the mapping and the records unchanged.
RenameAbsentNotFound ==
    (call.op = "update_name" /\ ~Has(pre.data, call.name)) =>
        /\ result = Raise("KeyError")
        /\ data = pre.data
        /\ heap = pre.heap

RenameAbsentWitness ==
    /\ call.op = "update_name"
    /\ ~Has(pre.data, call.name)
    /\ Has(pre.data, call.new_name)
    /\ result.kind = "raise"

\* C4: at most one record of the directory has owner = true.
AtMostOneOwner ==
    Cardinality({id \in Ids(data) : heap[id].owner}) <= 1

\* C7: add_record with a value that is not a Record, or with a Record whose
\* name is empty, fails (ValueError, the InvalidRecord failure) and leaves
\* keys, records and iteration order as they were.
AddInvalidRejected ==
    (call.op = "add_record" /\ (~call.isRecord \/ call.rec.name = "")) =>
        /\ result = Raise("ValueError")
        /\ data = pre.data
        /\ heap = pre.heap

AddEmptyNameWitness ==
    /\ call.op = "add_record"
    /\ call.isRecord
    /\ call.rec.name = ""
    /\ Len(pre.data) >= 2
    /\ result.kind = "raise"

\* C8: add_record with a valid record r2 whose name is already a key leaves
\* one entry under that name, which is r2 as given (nothing of the record
\* it replaces), and every entry under another name is as it was.
AddOverwrites ==
    (call.op = "add_record" /\ call.isRecord /\ call.rec.name # "") =>
        /\ result = Return("None")
        /\ Cardinality({i \in 1..Len(data) : data[i].key = call.rec.name}) = 1
        /\ Get(data, call.rec.name) = call.id
        /\ heap[call.id] = call.rec
        /\ Keys(data) = Keys(pre.data) \cup {call.rec.name}
        /\ \A k \in Keys(pre.data) \ {call.rec.name} :
              /\ Get(data, k) = Get(pre.data, k)
              /\ IndexOf(data, k) = IndexOf(pre.data, k)
        /\ \A id \in Ids(data) \ {call.id} : heap[id] = pre.heap[id]

AddOverwritesWitness ==
    /\ call.op = "add_record"
    /\ call.isRecord
    /\ Has(pre.data, call.rec.name)
    /\ Get(pre.data, call.rec.name) # call.id
    /\ pre.heap[Get(pre.data, call.rec.name)].notes # <<>>
    /\ pre.heap[Get(pre.data, call.rec.name)].notes # call.rec.notes
    /\ Len(pre.data) >= 2
    /\ result.kind = "return"

\* C9: delete of a present name succeeds, after it find_contact gives None
\* for the name and every other entry is as it was; delete of an absent
\* name fails (ValueError, the NotFound failure) and changes nothing.
DeleteRemoves ==
    (call.op = "delete") =>
        IF Has(pre.data, call.name)
        THEN /\ result = Return("Contact deleted.")
             /\ find_contact(data, call.name) = 0
             /\ data = SelectSeq(pre.data, LAMBDA e : e.key # call.name)
             /\ \A id \in Ids(data) : heap[id] = pre.heap[id]
        ELSE /\ result = Raise("ValueError")
             /\ data = pre.data
             /\ heap = pre.heap

DeleteWitness ==
    /\ call.op = "delete"
    /\ Has(pre.data, call.name)
    /\ Len(pre.data) >= 2
    /\ IndexOf(pre.data, call.name) = 1
    /\ result.kind = "return"

\* C10 as stated: a successful update_name keeps the number of entries and
\* keeps every record under a key other than name where it was.
RenameKeepsOthers ==
    (call.op = "update_name" /\ result.kind = "return") =>
        /\ Len(data) = Len(pre.data)
        /\ \A k \in Keys(pre.data) \ {call.name} :
              Has(data, k) /\ Get(data, k) = Get(pre.data, k)

\* C10 as amended: a successful update_name puts the renamed record under
\* new_name, keeps every record under a key other than name and new_name
\* where it was, changes no other record object, and keeps the number of
\* entries unless new_name was the key of another entry, which is replaced.
RenameFrame ==
    (call.op = "update_name" /\ result.kind = "return") =>
        LET id == Get(pre.data, call.name)
            taken == call.new_name \in Keys(pre.data) \ {call.name}
        IN /\ Keys(data) = (Keys(pre.data) \ {call.name}) \cup {call.new_name}
           /\ Get(data, call.new_name) = id
           /\ \A k \in Keys(pre.data) \ {call.name, call.new_name} :
                 Get(data, k) = Get(pre.data, k)
           /\ \A o \in Ids(data) \ {id} : heap[o] = pre.heap[o]
           /\ Len(data) = IF taken THEN Len(pre.data) - 1 ELSE Len(pre.data)

RenameOntoTakenWitness ==
    /\ call.op = "update_name"
    /\ result.kind = "return"
    /\ call.new_name \in Keys(pre.data) \ {call.name}
    /\ Get(pre.data, call.new_name) # Get(pre.data, call.name)
    /\ Len(data) = Len(pre.data) - 1

\* The number of notes with the title, over the record objects of the
\* directory.
RECURSIVE CountNotes(_, _, _)
CountNotes(ids, h, title) ==
    IF ids = {} THEN 0
    ELSE LET id == CHOOSE x \in ids : TRUE
         IN Cardinality(TitleAt(h[id].notes, title)) + CountNotes(ids \ {id}, h, title)

NotesWithTitle(d, h, title) == CountNotes(Ids(d), h, title)

\* The last two calls were delete_note_by_title with the same title, and
\* the first of them removed a note.
SecondDeleteOfTitle ==
    /\ call.op = "delete_note_by_title"
    /\ prior.op = "delete_note_by_title"
    /\ prior.title = call.title
    /\ prior.removed

\* C5 as stated: after a delete_note_by_title that removed a note, a second
\* call with the same title leaves every note collection unchanged.
SecondDeleteChangesNothing ==
    SecondDeleteOfTitle => (heap = pre.heap /\ data = pre.data)

\* C5 as amended: the second call changes nothing when the first call's
\* note was the only one left with the title; when notes with the title
\* remain, it removes exactly one of them and no other note.
SecondDeleteRemovesNext ==
    SecondDeleteOfTitle =>
        /\ data = pre.data
        /\ IF NotesWithTitle(pre.data, pre.heap, call.title) = 0
           THEN heap = pre.heap
           ELSE NotesWithTitle(data, heap, call.title)
                    = NotesWithTitle(pre.data, pre.heap, call.title) - 1
        /\ \A t \in Titles \ {call.title} :
              NotesWithTitle(data, heap, t) = NotesWithTitle(pre.data, pre.heap, t)

SecondDeleteWitness ==
    /\ SecondDeleteOfTitle
    /\ NotesWithTitle(pre.data, pre.heap, call.title) = 0
    /\ \E t \in Titles : NotesWithTitle(data, heap, t) > 0

\* The days from today to the next date with the birthday's month and day:
\* in today's year unless that month and day come before today's.
MonthDayBefore(b, t) == b.m < t.m \/ (b.m = t.m /\ b.d < t.d)

DaysUntil(b, today) ==
    LET y == IF MonthDayBefore(b, today) THEN today.y + 1 ELSE today.y
    IN DaysBeforeYear(y) + DaysBeforeMonth(y, b.m) + b.d - Ordinal(today)

InWindow(id, today, n) ==
    /\ heap[id].birthday # NoDate
    /\ DaysUntil(heap[id].birthday, today) \in 0..n

\* C6: get_upcoming_birthdays(n) returns exactly the records of the
\* directory whose birthday's next occurrence is 0 to n days from today,
\* and its result is contained in the result for n + 1.
UpcomingExact ==
    (call.op = "get_upcoming_birthdays") =>
        /\ result.kind = "return"
        /\ ToSet(result.value) = {id \in Ids(data) : InWindow(id, call.today, call.n_days)}
        /\ LET wider == get_upcoming_birthdays(data, heap, call.today, call.n_days + 1).result
           IN wider.kind = "return" /\ ToSet(result.value) \subseteq ToSet(wider.value)

====
